---- MODULE Spec2Model ----
(***************************************************************************)
(* RecallKit: the Markdown flashcard parser and output builder             *)
(* (parser.py, src/utils.py), the Leitner study view embedded in           *)
(* streamlit_app.py, and the progress API (api/main.py).                   *)
(*                                                                         *)
(* Text is modelled as a sequence of one-character strings.  Three         *)
(* literal words of the regular expressions are single tokens:             *)
(*   "F" = Flashcard   "Q" = **Question**   "A" = **Answer**               *)
(* "1" stands for a decimal digit, "x" "y" "z" for ordinary characters.    *)
(***************************************************************************)
EXTENDS Integers, Sequences, FiniteSets, TLC

VARIABLES
    \* ---- parser / output builder
    md_files,    \* the argument of build_outputs: a list of <<fname, text>>
    layout,      \* how md_files was composed: the card blocks of each document
    build_dir,   \* BUILD_DIR: per file name, whether it is there and what it holds
    upl,         \* the session on the manage tab: where its handler is in its writes
    ldr,         \* the session that loads the study view: where it is, what it read
    nupl,        \* uploads and deletions started so far
    out,         \* the value returned by build_outputs, or NoOutput
    \* ---- study view (the script of streamlit_app.py)
    cards,       \* CARDS.cards, the pool injected into the page
    storage,     \* the text under the localStorage key "leitner"
    prog,        \* let prog = loadProgress()
    queue, idx, shown,
    topicSel, tagSel,   \* the values of the two selects
    now,         \* what Date.now() returns, in minutes
    view,        \* "unloaded", or how the last handler ended: "ok" or "threw"
    ngrades,     \* grade events so far
    \* ---- progress API
    fs,          \* the data directory: per profile, the inode of <p>.json and of <p>.json.tmp
    inodes,      \* the content of each live inode, a sequence of written chunks
    req,         \* per worker thread: the request it serves and where it is in the handler
    nreq,        \* requests started so far
    hist,        \* per profile: the PUT bodies a reader is entitled to
    API_TOKEN,   \* the bearer token of the configuration, empty when there is none
    call         \* per worker thread: the profile name and credentials of its request

exportVars == <<build_dir, upl, ldr, nupl>>
parserVars == <<md_files, layout, out, exportVars>>
studyVars  == <<cards, storage, prog, queue, idx, shown, topicSel, tagSel, now, view, ngrades>>
gateVars   == <<API_TOKEN, call>>
apiVars    == <<fs, inodes, req, nreq, hist, gateVars>>
vars       == <<parserVars, studyVars, apiVars>>

(***************************************************************************)
(* Bounds of the model.                                                    *)
(***************************************************************************)
MaxLines  == 5      \* lines of a free-form document
MaxBlocks == 2      \* card blocks of a composed document
MaxGrades == 3      \* grade events of one study session
MaxReqs   == 4      \* requests sent to the progress API
MaxUploads == 2     \* uploads and deletions on the manage tab while the study view loads

(***************************************************************************)
(* Characters and str methods.                                             *)
(***************************************************************************)
NL  == "\n"
TAB == "\t"

\* characters removed by str.strip()
IsWhite(c) == c \in {" ", TAB, NL}

RECURSIVE LStrip(_)
LStrip(s) == IF s # <<>> /\ IsWhite(Head(s)) THEN LStrip(Tail(s)) ELSE s

RECURSIVE RStrip(_)
RStrip(s) ==
    IF s # <<>> /\ IsWhite(s[Len(s)]) THEN RStrip(SubSeq(s, 1, Len(s) - 1)) ELSE s

\* str.strip()
Strip(s) == RStrip(LStrip(s))

\* "\n".join(ls)
RECURSIVE JoinLines(_)
JoinLines(ls) ==
    IF ls = <<>> THEN <<>>
    ELSE IF Len(ls) = 1 THEN ls[1]
    ELSE ls[1] \o <<NL>> \o JoinLines(Tail(ls))

\* str.splitlines(): a line ends at each line break; a final line break
\* opens no further line
RECURSIVE SplitFrom(_, _)
SplitFrom(s, cur) ==
    IF s = <<>> THEN (IF cur = <<>> THEN <<>> ELSE <<cur>>)
    ELSE IF Head(s) = NL THEN <<cur>> \o SplitFrom(Tail(s), <<>>)
    ELSE SplitFrom(Tail(s), Append(cur, Head(s)))

splitlines(s) == SplitFrom(s, <<>>)

(***************************************************************************)
(* The regular expressions of parse_flashcards, as matchers on one line.   *)
(***************************************************************************)
\* the first position >= i of s that holds no character of class cls
RECURSIVE SkipClass(_, _, _)
SkipClass(s, i, cls) ==
    IF i <= Len(s) /\ s[i] \in cls THEN SkipClass(s, i + 1, cls) ELSE i

SkipWs(s, i) == SkipClass(s, i, {" ", TAB})

At(s, i) == IF i >= 1 /\ i <= Len(s) THEN s[i] ELSE "EOL"

Rest(s, i) == SubSeq(s, i, Len(s))

NoMatch == [ok |-> FALSE, group |-> <<>>]

\* what \s*(.+)$ captures from position i on (i <= Len(line)): the greedy \s*
\* takes the leading blanks, and gives one back when nothing else is left
TailGroup(line, i) ==
    LET j == SkipWs(line, i)
    IN  IF j > Len(line) THEN Rest(line, Len(line)) ELSE Rest(line, j)

\* ^#{2,6}\s*Flashcard\s*\d+\s*:\s*(.+)$   group = m.group(1)
FLASH_HEAD(line) ==
    LET h  == SkipClass(line, 1, {"#"})
        f  == SkipWs(line, h)
        d  == SkipWs(line, f + 1)
        e  == SkipClass(line, d, {"1"})
        c  == SkipWs(line, e)
    IN  IF /\ h - 1 >= 2 /\ h - 1 <= 6
           /\ At(line, f) = "F"
           /\ e > d
           /\ At(line, c) = ":"
           /\ c < Len(line)
        THEN [ok |-> TRUE, group |-> TailGroup(line, c + 1)]
        ELSE NoMatch

\* ^\s*[\*\-]\s+\*\*Question\*\*\s*:\s*(.+)$   group = m.group(1)
QUESTION_LINE(line) ==
    LET b  == SkipWs(line, 1)
        l  == SkipWs(line, b + 1)
        c  == SkipWs(line, l + 1)
    IN  IF /\ At(line, b) \in {"*", "-"}
           /\ l > b + 1
           /\ At(line, l) = "Q"
           /\ At(line, c) = ":"
           /\ c < Len(line)
        THEN [ok |-> TRUE, group |-> TailGroup(line, c + 1)]
        ELSE NoMatch

\* ^\s*[\*\-]\s+\*\*Answer\*\*\s*:?\s*$
ANSWER_LINE(line) ==
    LET b  == SkipWs(line, 1)
        l  == SkipWs(line, b + 1)
        c  == SkipWs(line, l + 1)
        e  == IF At(line, c) = ":" THEN SkipWs(line, c + 1) ELSE c
    IN  /\ At(line, b) \in {"*", "-"}
        /\ l > b + 1
        /\ At(line, l) = "A"
        /\ e > Len(line)

\* ^\s*---\s*$
RULE_LINE(line) ==
    LET b == SkipWs(line, 1)
        e == SkipClass(line, b, {"-"})
    IN  /\ e - b = 3
        /\ SkipWs(line, e) > Len(line)

\* mutant: the inner loops stop at a heading only
IsBoundaryHeadOnly(line) == FLASH_HEAD(line).ok

\* mutant: the inner loops stop at a rule line only
IsBoundaryRuleOnly(line) == RULE_LINE(line)

\* FLASH_HEAD.match(lines[i]) or re.match(r"^\s*---\s*$", lines[i])
IsBoundary(line) == FLASH_HEAD(line).ok \/ RULE_LINE(line)

(***************************************************************************)
(* parse_flashcards.  A card is [q, a, title]; build_outputs adds tag.     *)
(* None and "" are both falsy at the test `if q and answer`, the only      *)
(* place q is read, so None is the empty sequence.                         *)
(***************************************************************************)
None == <<>>

\* mutant: blank lines are not collected
RECURSIVE CollectAnswerSkipBlank(_, _, _)
CollectAnswerSkipBlank(lines, i, a_lines) ==
    IF i > Len(lines) \/ IsBoundary(lines[i])
    THEN [i |-> i, a_lines |-> a_lines]
    ELSE CollectAnswerSkipBlank(lines, i + 1,
             IF Strip(lines[i]) = <<>> THEN a_lines ELSE Append(a_lines, lines[i]))

\* the innermost loop: collect lines up to a boundary or the end of input
RECURSIVE CollectAnswer(_, _, _)
CollectAnswer(lines, i, a_lines) ==
    IF i > Len(lines) \/ IsBoundary(lines[i])
    THEN [i |-> i, a_lines |-> a_lines]
    ELSE CollectAnswer(lines, i + 1, Append(a_lines, lines[i]))

\* mutant: the first question line of a card is kept
RECURSIVE ScanBodyFirstWins(_, _, _)
ScanBodyFirstWins(lines, i, q) ==
    IF i > Len(lines) \/ IsBoundary(lines[i])
    THEN [i |-> i, q |-> q, a_lines |-> <<>>]
    ELSE LET qmatch == QUESTION_LINE(lines[i])
             q2     == IF qmatch.ok /\ q = None THEN Strip(qmatch.group) ELSE q
         IN  IF ANSWER_LINE(lines[i])
             THEN LET r == CollectAnswer(lines, i + 1, <<>>)
                  IN  [i |-> r.i, q |-> q2, a_lines |-> r.a_lines]
             ELSE ScanBodyFirstWins(lines, i + 1, q2)

\* the loop over a card's body; returns where it stopped, q and a_lines
RECURSIVE ScanBody(_, _, _)
ScanBody(lines, i, q) ==
    IF i > Len(lines) \/ IsBoundary(lines[i])
    THEN [i |-> i, q |-> q, a_lines |-> <<>>]
    ELSE LET qmatch == QUESTION_LINE(lines[i])
             q2     == IF qmatch.ok THEN Strip(qmatch.group) ELSE q
         IN  IF ANSWER_LINE(lines[i])
             THEN LET r == CollectAnswer(lines, i + 1, <<>>)
                  IN  [i |-> r.i, q |-> q2, a_lines |-> r.a_lines]
             ELSE ScanBody(lines, i + 1, q2)

\* mutant: the outer loop emits on `if answer`, without looking at q
RECURSIVE ScanCardsNoQuestionTest(_, _, _)
ScanCardsNoQuestionTest(lines, i, acc) ==
    IF i > Len(lines) THEN acc
    ELSE LET m == FLASH_HEAD(lines[i])
         IN  IF ~m.ok THEN ScanCardsNoQuestionTest(lines, i + 1, acc)
             ELSE LET title  == Strip(m.group)
                      r      == ScanBody(lines, i + 1, None)
                      answer == Strip(JoinLines(r.a_lines))
                  IN  IF answer # <<>>
                      THEN ScanCardsNoQuestionTest(lines, r.i,
                               Append(acc, [q |-> r.q, a |-> answer, title |-> title]))
                      ELSE ScanCardsNoQuestionTest(lines, r.i, acc)

\* the outer loop: look for a heading, scan its card, resume where it stopped
RECURSIVE ScanCards(_, _, _)
ScanCards(lines, i, acc) ==
    IF i > Len(lines) THEN acc
    ELSE LET m == FLASH_HEAD(lines[i])
         IN  IF ~m.ok THEN ScanCards(lines, i + 1, acc)
             ELSE LET title  == Strip(m.group)
                      r      == ScanBody(lines, i + 1, None)
                      answer == Strip(JoinLines(r.a_lines))
                  IN  IF r.q # <<>> /\ answer # <<>>
                      THEN ScanCards(lines, r.i,
                               Append(acc, [q |-> r.q, a |-> answer, title |-> title]))
                      ELSE ScanCards(lines, r.i, acc)

parse_flashcards(md_text) == ScanCards(splitlines(md_text), 1, <<>>)

(***************************************************************************)
(* build_outputs.                                                          *)
(***************************************************************************)
\* the last index of character c in s, 0 when there is none
RECURSIVE LastIndex(_, _)
LastIndex(s, c) ==
    IF s = <<>> THEN 0
    ELSE IF s[Len(s)] = c THEN Len(s)
    ELSE LastIndex(SubSeq(s, 1, Len(s) - 1), c)

\* mutant: the name is cut at its first dot
StemFirstDot(fname) ==
    LET name == Rest(fname, LastIndex(fname, "/") + 1)
        dots == {k \in 2..Len(name) : name[k] = "."}
    IN  IF dots = {} THEN name
        ELSE SubSeq(name, 1, (CHOOSE k \in dots : \A j \in dots : k <= j) - 1)

\* pathlib.Path(fname).stem: the final path component without its last
\* suffix; a leading dot starts no suffix
Stem(fname) ==
    LET name == Rest(fname, LastIndex(fname, "/") + 1)
        dot  == LastIndex(name, ".")
    IN  IF dot > 1 /\ dot < Len(name) THEN SubSeq(name, 1, dot - 1) ELSE name

\* cs = parse_flashcards(text); for c in cs: c["tag"] = Path(fname).stem
TaggedCards(f) ==
    LET cs == parse_flashcards(f[2])
    IN  [k \in 1..Len(cs) |->
            [q |-> cs[k].q, a |-> cs[k].a, title |-> cs[k].title, tag |-> Stem(f[1])]]

RECURSIVE AllCards(_)
AllCards(files) ==
    IF files = <<>> THEN <<>> ELSE TaggedCards(Head(files)) \o AllCards(Tail(files))

\* mutant: the fields of a row are separated by a blank
RECURSIVE TsvSpaced(_)
TsvSpaced(cs) ==
    IF cs = <<>> THEN <<>>
    ELSE Head(cs).q \o <<" ">> \o Head(cs).a \o <<NL>> \o TsvSpaced(Tail(cs))

\* quizlet_tsv += f"{c['q']}\t{c['a']}\n"
RECURSIVE Tsv(_)
Tsv(cs) ==
    IF cs = <<>> THEN <<>>
    ELSE Head(cs).q \o <<TAB>> \o Head(cs).a \o <<NL>> \o Tsv(Tail(cs))

\* the returned triple; cards_json is json.dumps({"cards": cards}), kept
\* as the object it serialises
build_outputs(files) ==
    LET cs == AllCards(files)
    IN  [cards_json |-> [cards |-> cs], quizlet_tsv |-> Tsv(cs), cards |-> cs]

NoOutput == [cards_json |-> [cards |-> <<>>], quizlet_tsv |-> <<"unset">>, cards |-> <<>>]

(***************************************************************************)
(* Inputs of the parser.  A free-form document is any sequence of at most  *)
(* MaxLines lines of LineVocab.  A composed document is a sequence of card *)
(* blocks, each rendered as heading, question bullet, answer marker, body  *)
(* and an optional closing rule.                                           *)
(***************************************************************************)
LineHead   == <<"#", "#", " ", "F", " ", "1", ":", " ", "x">>   \* ## Flashcard 1: x
LineQ      == <<"-", " ", "Q", ":", " ", "x">>                  \* - **Question**: x
LineQBlank == <<"-", " ", "Q", ":", " ">>                       \* - **Question**:<sp>
LineA      == <<"-", " ", "A", ":">>                            \* - **Answer**:
LineRule   == <<"-", "-", "-">>                                 \* ---
LineText   == <<"y">>
LineBlank  == <<" ">>

LineVocab == {LineHead, LineQ, LineQBlank, LineA, LineRule, LineText, LineBlank}

FreeTexts == UNION {[1..n -> LineVocab] : n \in 0..MaxLines}

\* a second vocabulary, for what separates and what labels: a rule of four
\* hyphens and a second question line
LineRule4 == <<"-", "-", "-", "-">>                          \* ----
LineQ2    == <<"*", " ", "Q", ":", " ", "z">>                \* * **Question**: z

MarkVocab == {LineHead, LineQ, LineQ2, LineA, LineRule, LineRule4, LineText}

MarkedTexts == UNION {[1..n -> MarkVocab] : n \in 0..MaxLines}

NameA == <<"a", ".", "m", "d">>                       \* a.md
NameB == <<"d", "/", "b", ".", "c", ".", "m", "d">>   \* d/b.c.md

AnswerBodies == { <<(<<"x">>)>>,
                  << <<"x">>, <<>>, <<" ", "y">> >>,
                  << <<>>, <<" ", "y", " ">>, <<" ">> >> }

Blocks == [title : {<<"x">>, <<"y", " ", "z">>}, question : {<<"x">>, <<"y">>},
           body : AnswerBodies, rule : BOOLEAN]

\* the two spellings of a block: the one of the documentation, and one that
\* uses what the expressions leave free (heading level, blanks, bullet, colon)
RenderBlock(b) ==
    (IF b.title = <<"x">>
     THEN << <<"#", "#", " ", "F", " ", "1", ":", " ">> \o b.title,
             <<"-", " ", "Q", ":", " ">> \o b.question,
             <<"-", " ", "A", ":">> >>
     ELSE << <<"#", "#", "#", "F", "1", "1", " ", ":">> \o b.title \o <<" ">>,
             <<>>,
             <<" ", "*", " ", " ", "Q", " ", ":">> \o b.question \o <<" ">>,
             <<"*", " ", "A", " ">> >>)
    \o b.body
    \o (IF b.rule THEN <<LineRule>> ELSE <<>>)

RECURSIVE RenderBlocks(_)
RenderBlocks(bs) ==
    IF bs = <<>> THEN <<>> ELSE RenderBlock(Head(bs)) \o RenderBlocks(Tail(bs))

\* the text of a composed document: its lines, each ended by a line break
RECURSIVE TextOf(_)
TextOf(ls) == IF ls = <<>> THEN <<>> ELSE Head(ls) \o <<NL>> \o TextOf(Tail(ls))

BlockSeqs == UNION {[1..n -> Blocks] : n \in 0..MaxBlocks}

\* layouts: the blocks of the first document, then those of the second
Layouts ==
    {l \in [blocks : BlockSeqs, split : 0..MaxBlocks, lines : {<<>>}] : l.split <= Len(l.blocks)}

FilesOf(l) ==
    << <<NameA, TextOf(RenderBlocks(SubSeq(l.blocks, 1, l.split)))>>,
       <<NameB, TextOf(RenderBlocks(SubSeq(l.blocks, l.split + 1, Len(l.blocks))))>> >>

NoLayout == [blocks |-> <<>>, split |-> 0, lines |-> <<>>]

(***************************************************************************)
(* The study view: the script injected by streamlit_app.py.                *)
(* A card of the pool is [topic, tag, title, q]; "" is the empty sequence. *)
(***************************************************************************)
Empty == <<>>

Min(a, b) == IF a <= b THEN a ELSE b
Max(a, b) == IF a >= b THEN a ELSE b

\* function idOf(c)
idOf(c) ==
    (IF c.topic = Empty THEN <<"default">> ELSE c.topic) \o <<":", ":">> \o c.tag
        \o <<":", ":">> \o c.title \o <<":", ":">> \o c.q

\* 86400*1000 milliseconds; the clock of the model counts minutes
DayMs == 1440

\* [0,0,1,3,7,16,35]: JavaScript indexes it from 0
ScheduleTable == <<0, 0, 1, 3, 7, 16, 35>>

\* mutant: the table read as if box 1 were its first entry
scheduleFromOne(box) == ScheduleTable[Min(box, 6)]

\* function schedule(box)
schedule(box) == ScheduleTable[Min(box, 6) + 1]

\* {box:1,last:0}
FreshEntry == [box |-> 1, last |-> 0]

\* a progress value is [kind, map]: what JSON.parse gave (an object, an
\* array, a number/string/boolean, or null) and the properties set on it
EmptyObject == [kind |-> "object", map |-> <<>>]

\* the text under the localStorage key "leitner": absent, text that is no
\* JSON ("garbage"), or the JSON text of a value of the given kind
Absent == [kind |-> "absent", map |-> <<>>]

\* function loadProgress(): getItem gives null for an absent key, and "{}"
\* is parsed in its place; a text that does not parse throws into the catch
loadProgress(st) ==
    IF st.kind \in {"absent", "garbage"} THEN EmptyObject
    ELSE [kind |-> st.kind, map |-> st.map]

\* JSON.stringify(state): the own enumerable properties of an object; an
\* array keeps its elements only, a primitive has no properties
stringify(pr) ==
    IF pr.kind = "object" THEN [kind |-> "object", map |-> pr.map]
    ELSE [kind |-> pr.kind, map |-> <<>>]

\* prog[id] || {box:1,last:0}
EntryOf(pr, id) == IF id \in DOMAIN pr.map THEN pr.map[id] ELSE FreshEntry

\* mutant: the assignment replaces the mapping by the one entry
SetEntryAlone(pr, id, st) ==
    IF pr.kind \in {"object", "array"}
    THEN [pr EXCEPT !.map = [k \in {id} |-> st]]
    ELSE pr

\* prog[id] = st: kept by an object or an array, silently dropped by a
\* primitive (the script is not in strict mode)
SetEntry(pr, id, st) ==
    IF pr.kind \in {"object", "array"}
    THEN [pr EXCEPT !.map = [k \in (DOMAIN pr.map) \cup {id} |->
                                IF k = id THEN st ELSE pr.map[k]]]
    ELSE pr

\* mutant: "hard" demotes by one box
NewBoxHardDemotes(quality, box) ==
    CASE quality = "again" -> 1
      [] quality = "hard"  -> Max(1, box - 1)
      [] quality = "good"  -> Min(6, box + 1)
      [] quality = "easy"  -> Min(6, box + 2)

\* mutant: "easy" is not clamped
NewBoxUnclamped(quality, box) ==
    CASE quality = "again" -> 1
      [] quality = "hard"  -> Max(1, box)
      [] quality = "good"  -> Min(6, box + 1)
      [] quality = "easy"  -> box + 2

\* the box a grade stores (lines 212-215)
NewBox(quality, box) ==
    CASE quality = "again" -> 1
      [] quality = "hard"  -> Max(1, box)
      [] quality = "good"  -> Min(6, box + 1)
      [] quality = "easy"  -> Min(6, box + 2)

Qualities == {"again", "hard", "good", "easy"}

\* the filter of line 233
Filtered(cs, topic, tag) ==
    LET keep(c) == (topic = Empty \/ c.topic = topic) /\ (tag = Empty \/ c.tag = tag)
    IN  SelectSeq(cs, keep)

\* the filter callback of lines 234-238
IsDue(pr, c, t) ==
    LET st == EntryOf(pr, idOf(c))
    IN  st.last + schedule(st.box) * DayMs <= t

\* mutant: no fallback to the filtered pool
DueQueueNoFallback(cs, pr, topic, tag, t) ==
    LET filtered == Filtered(cs, topic, tag)
        isdue(c) == IsDue(pr, c, t)
    IN  SelectSeq(filtered, isdue)

\* the queue applyFilters assigns (lines 233-240)
DueQueue(cs, pr, topic, tag, t) ==
    LET filtered == Filtered(cs, topic, tag)
        isdue(c) == IsDue(pr, c, t)
        due      == SelectSeq(filtered, isdue)
    IN  IF Len(due) = 0 THEN filtered ELSE due

\* prog[idOf(c)] throws a TypeError when prog is null; the callback runs
\* once per card of the filtered pool
FilterThrows(cs, pr, topic, tag) ==
    pr.kind = "null" /\ Filtered(cs, topic, tag) # <<>>

\* the options of the two selects: "All" (value "") and the values in use
TopicOptions(cs) ==
    {Empty} \cup {(IF cs[k].topic = Empty THEN <<"default">> ELSE cs[k].topic) : k \in 1..Len(cs)}

TagOptions(cs, topic) ==
    {Empty} \cup {cs[k].tag : k \in {j \in 1..Len(cs) : topic = Empty \/ cs[j].topic = topic}}

(***************************************************************************)
(* The progress API (api/main.py).  A request body is a JSON object; its   *)
(* text, json.dumps(payload, ensure_ascii=False, indent=2), reaches the    *)
(* file in the chunks the buffered writer flushes.  BodyS holds a string   *)
(* with a lone surrogate ("\ud800" in the request), which json.loads       *)
(* accepts, json.dumps with ensure_ascii=False leaves as it is, and the    *)
(* utf-8 codec of write_text refuses.                                      *)
(***************************************************************************)
Profiles == {"p", "q"}
Threads  == {1, 2, 3}

BodyA == "A"
BodyB == "B"
BodyS == "S"
Bodies == {BodyA, BodyB, BodyS}

EmptyBody == "{}"

\* json.dumps(payload, ensure_ascii=False, indent=2)
dumps(b) ==
    CASE b = BodyA -> <<"a1", "a2">>
      [] b = BodyB -> <<"b1", "b2">>
      [] b = BodyS -> <<"s1", "surrogate">>

\* str.encode("utf-8") raises UnicodeEncodeError on a lone surrogate
Encodable(text) == \A k \in 1..Len(text) : text[k] # "surrogate"

\* json.loads(text): the object whose text this is, or an exception
loads(text) ==
    IF \E b \in Bodies : dumps(b) = text
    THEN [ok |-> TRUE, value |-> CHOOSE b \in Bodies : dumps(b) = text]
    ELSE [ok |-> FALSE, value |-> "error"]

\* write(2) of one chunk at offset off (counted in chunks) of a file
WriteAt(content, off, chunk) ==
    [k \in 1..Max(Len(content), off + 1) |->
        IF k = off + 1 THEN chunk
        ELSE IF k <= Len(content) THEN content[k]
        ELSE "hole"]

NoFile == 0

\* an inode number not in use
FreshInode(ino) == CHOOSE n \in 1..(Cardinality(DOMAIN ino) + 1) : n \notin DOMAIN ino

\* inodes still named by the directory or held open by a writer
Referenced(dir, rq) ==
    {dir[p].path : p \in DOMAIN dir} \cup {dir[p].tmp : p \in DOMAIN dir}
        \cup {rq[t].fd : t \in Threads}

\* the kernel frees an inode once no name and no descriptor refers to it
Reclaim(ino, dir, rq) == [n \in (DOMAIN ino) \cap Referenced(dir, rq) |-> ino[n]]

IdleReq == [op |-> "idle", profile |-> "p", body |-> BodyA, pc |-> "idle",
            fd |-> NoFile, off |-> 0, status |-> 0, value |-> "none"]

NoHist == "none"

(***************************************************************************)
(* The gate in front of the handlers: the bearer token dependency of PUT   *)
(* and DELETE, and the profile name check every handler starts with.       *)
(* Names and tokens are sequences of characters.                           *)
(***************************************************************************)
\* [A-Za-z0-9._-], as far as the characters of the model go
ProfileChars == {"p", "q", "t", "u", ".", "_", "-"}

NameMax == 100

\* _PROFILE_SAFE_RE.match(profile), ^[A-Za-z0-9._-]{1,100}$: one to a hundred
\* characters of the class, then the end of the string or, as $ has it in
\* Python, a line break that ends the string
PROFILE_SAFE_RE(profile) ==
    \E n \in 1..Min(NameMax, Len(profile)) :
        /\ \A k \in 1..n : profile[k] \in ProfileChars
        /\ n = Len(profile) \/ (n = Len(profile) - 1 /\ profile[Len(profile)] = NL)

ProfP       == <<"p">>
ProfMax     == [k \in 1..NameMax |-> "p"]
ProfLong    == [k \in 1..(NameMax + 1) |-> "p"]
ProfNewline == <<"p", NL>>              \* /api/progress/p%0A
ProfSpace   == <<"p", " ">>             \* /api/progress/p%20
RequestNames == {ProfP, ProfMax, ProfLong, ProfNewline, ProfSpace}

\* DATA_DIR / f"{profile}.json": the file a name stands for
PathKey(profile) ==
    CASE profile = ProfP       -> "p"
      [] profile = <<"q">>     -> "q"
      [] profile = ProfMax     -> "p*100"
      [] profile = ProfLong    -> "p*101"
      [] profile = ProfNewline -> "p%0A"
      [] profile = ProfSpace   -> "p%20"

\* the files the data directory may come to hold
Stems == Profiles \cup {PathKey(n) : n \in RequestNames}

\* the Authorization header as HTTPBearer(auto_error=False) hands it over:
\* nothing, when the header is missing or of another scheme, or the text
\* after "Bearer "
NoCreds == [present |-> FALSE, credentials |-> <<>>]
Bearer(text) == [present |-> TRUE, credentials |-> text]

TokenT == <<"t">>
RequestCreds == {NoCreds, Bearer(TokenT), Bearer(<<" ", "t">>), Bearer(<<"u">>),
                 Bearer(<<"t", "u">>)}

\* RECALLKIT_API_TOKEN as the environment may hold it
EnvTokens == {<<>>, <<" ">>, TokenT, <<"t", " ">>}

\* os.getenv("RECALLKIT_API_TOKEN", "").strip()
ConfiguredToken(env) == Strip(env)

\* mutant: a token that begins like the configured one is let in
require_bearer_token_prefix(token, creds) ==
    \/ token = <<>>
    \/ LET given == Strip(IF creds.present THEN creds.credentials ELSE <<>>)
       IN  Len(given) >= Len(token) /\ SubSeq(given, 1, Len(token)) = token

\* require_bearer_token: TRUE when it returns, FALSE when it raises 401
require_bearer_token(token, creds) ==
    \/ token = <<>>
    \/ Strip(IF creds.present THEN creds.credentials ELSE <<>>) = token

IdleCall == [name |-> ProfP, creds |-> NoCreds]

(***************************************************************************)
(* The export directory.  A file is there or not, and holds the chunks     *)
(* written to it so far.  The upload handler writes <topic>.json and       *)
(* <topic>.tsv with open(path, "w") and then the topics index.  A file     *)
(* name is the pair of what stands before the last dot and what stands     *)
(* after it.                                                               *)
(***************************************************************************)
NoExport == [exists |-> FALSE, data |-> <<>>]
Written(chunks) == [exists |-> TRUE, data |-> chunks]

\* what the topic field may hold: its default, another name, the names of
\* the two files the views pass over, and nothing
TopicNames == {"default", "maths", "topics", "cards", ""}

\* os.path.join(BUILD_DIR, f"{topic}.json") and f"{topic}.tsv"
JsonPath(topic) == <<topic, "json">>
TsvPath(topic)  == <<topic, "tsv">>

\* os.path.join(BUILD_DIR, "topics.json")
IndexPath == <<"topics", "json">>

Files == {JsonPath(t) : t \in TopicNames} \cup {TsvPath(t) : t \in TopicNames}

\* glob.glob(os.path.join(BUILD_DIR, "*.json")): the star matches no name
\* that begins with a dot, and of the names here that is ".json"
Glob(dir) == {f \in Files : dir[f].exists /\ f[2] = "json" /\ f[1] # ""}

\* base in ("cards.json", "topics.json")
Reserved == {JsonPath("cards"), JsonPath("topics")}

\* os.path.splitext(base)[0]
TopicOf(f) == f[1]

\* sorted(topics): the names in the order of their characters
TopicOrder == <<"", "cards", "default", "maths", "topics">>
SortedTopics(names) == SelectSeq(TopicOrder, LAMBDA t : t \in names)

\* the card sets of two uploads, and the text of each as the buffered
\* writer flushes it
CardSets == {"A", "B"}
ExportChunks(v) == IF v = "A" THEN <<"A1", "A2">> ELSE <<"B1", "B2">>

\* json.dump({"topics": sorted(topics)}): the key, then the names
IndexChunks(dir) ==
    <<"topics">> \o SortedTopics({TopicOf(f) : f \in Glob(dir) \ Reserved})

\* function write_topics_index(): the directory it leaves
write_topics_index(dir) == [dir EXCEPT ![IndexPath] = Written(IndexChunks(dir))]

\* the card set last saved under each name by a finished upload and neither
\* deleted nor written again since
NoneSaved == [t \in TopicNames |-> "none"]

UplIdle == [pc |-> "idle", topic |-> "default", set |-> "A", off |-> 0, saved |-> NoneSaved]
LdrIdle == [pc |-> "idle", todo |-> {}, pool |-> {}, result |-> "none", at |-> -1]

\* json.load(f): the card set whose text the file holds, or an exception
LoadResult(data) ==
    IF \E v \in CardSets : data = ExportChunks(v)
    THEN CHOOSE v \in CardSets : data = ExportChunks(v)
    ELSE "JSONDecodeError"

\* the cards of one file in all_cards: c["topic"] = topic_name
Stamped(topic, v) == [topic |-> topic, set |-> v]

EmptyDir == [f \in Files |-> NoExport]

\* no export yet, nobody uploading or loading
ExportIdle ==
    /\ build_dir = EmptyDir
    /\ upl = UplIdle /\ ldr = LdrIdle /\ nupl = 0

\* the default topic was exported before, or not
ExportStart ==
    /\ \E before \in BOOLEAN :
          IF before
          THEN /\ build_dir = write_topics_index(
                                 [EmptyDir EXCEPT ![JsonPath("default")] = Written(ExportChunks("A")),
                                                  ![TsvPath("default")] = Written(<<"tsv">>)])
               /\ upl = [UplIdle EXCEPT !.saved["default"] = "A"]
          ELSE /\ build_dir = EmptyDir
               /\ upl = UplIdle
    /\ ldr = LdrIdle /\ nupl = 0

(***************************************************************************)
(* State machine: the output builder.                                      *)
(***************************************************************************)
ParserIdle == md_files = <<>> /\ layout = NoLayout /\ out = NoOutput /\ ExportIdle

InitFree ==
    /\ layout \in {[blocks |-> <<>>, split |-> 0, lines |-> ls] : ls \in FreeTexts}
    /\ md_files = << <<NameA, JoinLines(layout.lines)>> >>
    /\ out = NoOutput
    /\ ExportIdle

InitMarked ==
    /\ layout \in {[blocks |-> <<>>, split |-> 0, lines |-> ls] : ls \in MarkedTexts}
    /\ md_files = << <<NameA, JoinLines(layout.lines)>> >>
    /\ out = NoOutput
    /\ ExportIdle

InitCards ==
    /\ layout \in Layouts
    /\ md_files = FilesOf(layout)
    /\ out = NoOutput
    /\ ExportIdle

\* the handler of "Convert to Flashcards" with the topic field at its
\* default and no other session running: cards_json, quizlet_tsv, cards =
\* parser.build_outputs(md_files), then the two export files and the topics
\* index are written
Build ==
    /\ out = NoOutput
    /\ out' = build_outputs(md_files)
    /\ build_dir' = write_topics_index(
                        [build_dir EXCEPT ![JsonPath("default")] = Written(<<out'.cards_json>>),
                                          ![TsvPath("default")]  = Written(<<out'.quizlet_tsv>>)])
    /\ UNCHANGED <<md_files, layout, upl, ldr, nupl, studyVars, apiVars>>

(***************************************************************************)
(* State machine: the manage tab of one session uploads to a topic or      *)
(* deletes a card set while another session loads the study view.          *)
(* Streamlit runs the script of each session on its own thread, so the     *)
(* file operations of the two interleave.                                  *)
(***************************************************************************)
\* "Convert to Flashcards" is pressed with some name in the topic field:
\* build_outputs, os.makedirs
UploadStart ==
    /\ upl.pc = "idle"
    /\ nupl < MaxUploads
    /\ nupl' = nupl + 1
    /\ \E t \in TopicNames, v \in CardSets :
          upl' = [pc |-> "json_open", topic |-> t, set |-> v, off |-> 0,
                  saved |-> [upl.saved EXCEPT ![t] = "none"]]
    /\ UNCHANGED <<build_dir, ldr, md_files, layout, out, studyVars, apiVars>>

\* open(json_path, "w"): the file is created, or emptied when it is there
JsonOpen ==
    /\ upl.pc = "json_open"
    /\ build_dir' = [build_dir EXCEPT ![JsonPath(upl.topic)] = Written(<<>>)]
    /\ upl' = [upl EXCEPT !.pc = "json_write"]
    /\ UNCHANGED <<ldr, nupl, md_files, layout, out, studyVars, apiVars>>

\* f.write(cards_json) and the end of the with block: the text reaches the
\* file chunk by chunk
JsonWrite ==
    /\ upl.pc = "json_write"
    /\ LET text == ExportChunks(upl.set)
       IN  /\ build_dir' = [build_dir EXCEPT ![JsonPath(upl.topic)].data =
                                                 Append(@, text[upl.off + 1])]
           /\ upl' = IF upl.off + 1 = Len(text)
                     THEN [upl EXCEPT !.pc = "tsv", !.off = 0]
                     ELSE [upl EXCEPT !.off = upl.off + 1]
    /\ UNCHANGED <<ldr, nupl, md_files, layout, out, studyVars, apiVars>>

\* with open(tsv_path, "w") as f: f.write(quizlet_tsv)
TsvWrite ==
    /\ upl.pc = "tsv"
    /\ build_dir' = [build_dir EXCEPT ![TsvPath(upl.topic)] = Written(<<"tsv">>)]
    /\ upl' = [upl EXCEPT !.pc = "index"]
    /\ UNCHANGED <<ldr, nupl, md_files, layout, out, studyVars, apiVars>>

\* write_topics_index(), st.success: the upload has saved its card set
WriteIndex ==
    /\ upl.pc = "index"
    /\ build_dir' = write_topics_index(build_dir)
    /\ upl' = [UplIdle EXCEPT !.saved = [upl.saved EXCEPT ![upl.topic] = upl.set]]
    /\ UNCHANGED <<ldr, nupl, md_files, layout, out, studyVars, apiVars>>

\* the Delete button of a listed file: os.remove(jf)
DeleteStart ==
    /\ upl.pc = "idle"
    /\ nupl < MaxUploads
    /\ nupl' = nupl + 1
    /\ \E f \in Glob(build_dir) :
          /\ build_dir' = [build_dir EXCEPT ![f] = NoExport]
          /\ upl' = [pc |-> "del_tsv", topic |-> TopicOf(f), set |-> "A", off |-> 0,
                     saved |-> [upl.saved EXCEPT ![TopicOf(f)] = "none"]]
    /\ UNCHANGED <<ldr, md_files, layout, out, studyVars, apiVars>>

\* if os.path.exists(tsv): os.remove(tsv)
DeleteTsv ==
    /\ upl.pc = "del_tsv"
    /\ build_dir' = [build_dir EXCEPT ![TsvPath(upl.topic)] = NoExport]
    /\ upl' = [upl EXCEPT !.pc = "del_index"]
    /\ UNCHANGED <<ldr, nupl, md_files, layout, out, studyVars, apiVars>>

\* write_topics_index(), st.rerun() after a deletion
DeleteIndex ==
    /\ upl.pc = "del_index"
    /\ build_dir' = write_topics_index(build_dir)
    /\ upl' = [UplIdle EXCEPT !.saved = upl.saved]
    /\ UNCHANGED <<ldr, nupl, md_files, layout, out, studyVars, apiVars>>

\* the files the study tab reads: the glob less cards.json and topics.json
StudyFiles(dir) == Glob(dir) \ Reserved

\* the study tab of another session: glob BUILD_DIR/*.json, less cards.json
\* and topics.json; "at" notes how many operations of the manage tab had
\* started, when that tab is at rest
LoadGlob ==
    /\ ldr.pc \in {"idle", "done"}
    /\ ldr' = [pc     |-> IF StudyFiles(build_dir) = {} THEN "done" ELSE "read",
               todo   |-> StudyFiles(build_dir),
               pool   |-> {},
               result |-> IF StudyFiles(build_dir) = {}
                          THEN "No flashcard sets found" ELSE "none",
               at     |-> IF upl.pc = "idle" THEN nupl ELSE -1]
    /\ UNCHANGED <<build_dir, upl, nupl, md_files, layout, out, studyVars, apiVars>>

\* one turn of the loop: with open(path) as f: data = json.load(f), the
\* cards stamped with the topic and added to all_cards; an exception ends
\* the script run
LoadRead ==
    /\ ldr.pc = "read"
    /\ \E f \in ldr.todo :
          LET r == IF build_dir[f].exists THEN LoadResult(build_dir[f].data)
                   ELSE "FileNotFoundError"
          IN  ldr' = IF r \notin CardSets
                     THEN [ldr EXCEPT !.pc = "done", !.todo = {}, !.pool = {}, !.result = r]
                     ELSE [ldr EXCEPT !.pc = IF ldr.todo = {f} THEN "done" ELSE "read",
                                      !.todo = @ \ {f},
                                      !.pool = @ \cup {Stamped(TopicOf(f), r)},
                                      !.result = IF ldr.todo = {f} THEN "ok" ELSE "none"]
    /\ UNCHANGED <<build_dir, upl, nupl, md_files, layout, out, studyVars, apiVars>>

NextExport ==
    \/ UploadStart \/ JsonOpen \/ JsonWrite \/ TsvWrite \/ WriteIndex
    \/ DeleteStart \/ DeleteTsv \/ DeleteIndex
    \/ LoadGlob \/ LoadRead

(***************************************************************************)
(* State machine: the study view.                                          *)
(***************************************************************************)
T1 == <<"t1">>
T2 == <<"t2">>
G1 == <<"g1">>
G2 == <<"g2">>

Pool3 == << [topic |-> T1, tag |-> G1, title |-> <<"x">>, q |-> <<"x">>],
            [topic |-> T1, tag |-> G2, title |-> <<"x">>, q |-> <<"y">>],
            [topic |-> T2, tag |-> G1, title |-> <<"y">>, q |-> <<"x">>] >>

Pools == {<<>>, Pool3}

\* a pool of one topic and tag: a card, a card with other fields whose title
\* and question hold the separator, and a second copy of the first
PoolTwins == << [topic |-> T1, tag |-> G1, title |-> <<"x", ":", ":", "y">>, q |-> <<"z">>],
                [topic |-> T1, tag |-> G1, title |-> <<"x">>, q |-> <<"y", ":", ":", "z">>],
                [topic |-> T1, tag |-> G1, title |-> <<"x", ":", ":", "y">>, q |-> <<"z">>] >>

Epoch0 == 20000 * DayMs
Times  == {Epoch0, Epoch0 + DayMs - 1, Epoch0 + DayMs}

\* the stored texts besides a mapping the page wrote itself
CorruptStorages ==
    {[kind |-> k, map |-> <<>>] : k \in {"garbage", "null", "scalar", "array"}}

StudyIdle ==
    /\ cards = <<>> /\ storage = Absent /\ prog = EmptyObject
    /\ queue = <<>> /\ idx = 0 /\ shown = FALSE
    /\ topicSel = Empty /\ tagSel = Empty
    /\ now = Epoch0 /\ view = "unloaded" /\ ngrades = 0

InitStudy(storages) ==
    /\ cards \in Pools /\ storage \in storages /\ prog = EmptyObject
    /\ queue = <<>> /\ idx = 0 /\ shown = FALSE
    /\ topicSel = Empty /\ tagSel = Empty
    /\ now = Epoch0 /\ view = "unloaded" /\ ngrades = 0

InitTwins ==
    /\ cards = PoolTwins /\ storage = Absent /\ prog = EmptyObject
    /\ queue = <<>> /\ idx = 0 /\ shown = FALSE
    /\ topicSel = Empty /\ tagSel = Empty
    /\ now \in Times /\ view = "unloaded" /\ ngrades = 0

\* function applyFilters() with the selects at (topic, tag): the filter
\* callback may throw before queue is assigned
applyFilters(pr, topic, tag) ==
    /\ topicSel' = topic
    /\ tagSel' = tag
    /\ IF FilterThrows(cards, pr, topic, tag)
       THEN /\ view' = "threw"
            /\ UNCHANGED <<queue, idx, shown>>
       ELSE /\ queue' = DueQueue(cards, pr, topic, tag, now)
            /\ idx' = 0
            /\ shown' = FALSE
            /\ view' = "ok"

\* the page is (re)loaded: let prog = loadProgress(); ... boot()
Boot ==
    /\ prog' = loadProgress(storage)
    /\ IF FilterThrows(cards, loadProgress(storage), Empty, Empty)
       THEN /\ queue' = <<>> /\ idx' = 0 /\ shown' = FALSE
            /\ topicSel' = Empty /\ tagSel' = Empty
            /\ view' = "threw"
       ELSE applyFilters(loadProgress(storage), Empty, Empty)
    /\ UNCHANGED <<cards, storage, now, ngrades, parserVars, apiVars>>

\* topic.onchange: updateTagOptions() rebuilds the tag select, whose value
\* falls back to "All", then applyFilters()
ChangeTopic ==
    /\ view # "unloaded"
    /\ \E t \in TopicOptions(cards) \ {topicSel} : applyFilters(prog, t, Empty)
    /\ UNCHANGED <<cards, storage, prog, now, ngrades, parserVars, apiVars>>

\* tag.onchange = applyFilters
ChangeTag ==
    /\ view # "unloaded"
    /\ \E g \in TagOptions(cards, topicSel) \ {tagSel} : applyFilters(prog, topicSel, g)
    /\ UNCHANGED <<cards, storage, prog, now, ngrades, parserVars, apiVars>>

\* mutant: the index is moved without the wrap
moveUnwrapped(d) ==
    IF Len(queue) # 0
    THEN /\ idx' = idx + d
         /\ shown' = FALSE
    ELSE UNCHANGED <<idx, shown>>

\* mutant: a move leaves the answer as it was shown
moveKeepsShown(d) ==
    IF Len(queue) # 0
    THEN /\ idx' = (idx + d + Len(queue)) % Len(queue)
         /\ UNCHANGED shown
    ELSE UNCHANGED <<idx, shown>>

\* function move(d): the new idx and shown
move(d) ==
    IF Len(queue) # 0
    THEN /\ idx' = (idx + d + Len(queue)) % Len(queue)
         /\ shown' = FALSE
    ELSE UNCHANGED <<idx, shown>>

NextCard ==
    /\ view # "unloaded"
    /\ move(1)
    /\ view' = "ok"
    /\ UNCHANGED <<cards, storage, prog, queue, topicSel, tagSel, now, ngrades,
                   parserVars, apiVars>>

PrevCard ==
    /\ view # "unloaded"
    /\ move(-1)
    /\ view' = "ok"
    /\ UNCHANGED <<cards, storage, prog, queue, topicSel, tagSel, now, ngrades,
                   parserVars, apiVars>>

\* show.onclick
Reveal ==
    /\ view # "unloaded"
    /\ shown' = ~shown
    /\ view' = "ok"
    /\ UNCHANGED <<cards, storage, prog, queue, idx, topicSel, tagSel, now, ngrades,
                   parserVars, apiVars>>

\* the progress value grade leaves in prog (lines 210-217)
Graded(pr, c, quality, t) ==
    LET id == idOf(c)
        st == EntryOf(pr, id)
    IN  SetEntry(pr, id, [box |-> NewBox(quality, st.box), last |-> t])

\* mutant: a grade filters the pool again
GradeRefilters(quality) ==
    /\ view # "unloaded"
    /\ ngrades < MaxGrades
    /\ ngrades' = ngrades + 1
    /\ IF Len(queue) = 0
       THEN /\ view' = "ok"
            /\ UNCHANGED <<prog, storage, queue, idx, shown>>
       ELSE /\ prog' = Graded(prog, queue[idx + 1], quality, now)
            /\ storage' = stringify(prog')
            /\ queue' = DueQueue(cards, prog', topicSel, tagSel, now)
            /\ idx' = 0
            /\ shown' = FALSE
            /\ view' = "ok"
    /\ UNCHANGED <<cards, topicSel, tagSel, now, parserVars, apiVars>>

\* function grade(quality)
Grade(quality) ==
    /\ view # "unloaded"
    /\ ngrades < MaxGrades
    /\ ngrades' = ngrades + 1
    /\ IF Len(queue) = 0
       THEN /\ view' = "ok"
            /\ UNCHANGED <<prog, storage, idx, shown>>
       ELSE IF prog.kind = "null"
       THEN /\ view' = "threw"
            /\ UNCHANGED <<prog, storage, idx, shown>>
       ELSE /\ prog' = Graded(prog, queue[idx + 1], quality, now)
            /\ storage' = stringify(prog')
            /\ move(1)
            /\ view' = "ok"
    /\ UNCHANGED <<cards, queue, topicSel, tagSel, now, parserVars, apiVars>>

GradeAgain == Grade("again")
GradeHard  == Grade("hard")
GradeGood  == Grade("good")
GradeEasy  == Grade("easy")

\* time passes
Tick ==
    /\ \E t \in Times : t > now /\ now' = t
    /\ UNCHANGED <<cards, storage, prog, queue, idx, shown, topicSel, tagSel, view,
                   ngrades, parserVars, apiVars>>

NextStudy ==
    \/ Boot \/ ChangeTopic \/ ChangeTag \/ NextCard \/ PrevCard \/ Reveal
    \/ GradeAgain \/ GradeHard \/ GradeGood \/ GradeEasy \/ Tick

(***************************************************************************)
(* State machine: the progress API.  FastAPI runs these handlers (plain    *)
(* def) on a pool of worker threads, so the steps of different requests    *)
(* interleave at every system call.                                        *)
(***************************************************************************)
\* an empty data directory and idle workers
ApiStore ==
    /\ fs = [p \in Stems |-> [path |-> NoFile, tmp |-> NoFile]]
    /\ inodes = <<>>
    /\ req = [t \in Threads |-> IdleReq]
    /\ nreq = 0
    /\ hist = [p \in Stems |-> [acked |-> NoHist, last |-> NoHist]]
    /\ call = [t \in Threads |-> IdleCall]

\* the service with no token configured
ApiIdle == ApiStore /\ API_TOKEN = ConfiguredToken(<<>>)

\* the service under any of the configurations
ApiConfigured == ApiStore /\ API_TOKEN \in {ConfiguredToken(e) : e \in EnvTokens}

\* a request reaches worker t
Start(t, op, p, b) ==
    /\ req[t].pc \in {"idle", "done"}
    /\ nreq < MaxReqs
    /\ nreq' = nreq + 1
    /\ req' = [req EXCEPT ![t] = [op |-> op, profile |-> p, body |-> b, pc |-> "start",
                                  fd |-> NoFile, off |-> 0, status |-> 0, value |-> "none"]]
    /\ UNCHANGED <<fs, inodes, hist, parserVars, studyVars, gateVars>>

StartGet(t, ps)    == \E p \in ps : Start(t, "GET", p, BodyA)
StartPut(t, ps)    == \E p \in ps, b \in Bodies : Start(t, "PUT", p, b)
StartDelete(t, ps) == \E p \in ps : Start(t, "DELETE", p, BodyA)

\* the handler of worker t returns or raises HTTPException
Respond(t, rq, status, value) ==
    [rq EXCEPT ![t].pc = "done", ![t].fd = NoFile, ![t].status = status, ![t].value = value]

\* get_progress, p.exists()
GetExists(t) ==
    /\ req[t].op = "GET" /\ req[t].pc = "start"
    /\ req' = IF fs[req[t].profile].path = NoFile
              THEN Respond(t, req, 200, EmptyBody)
              ELSE [req EXCEPT ![t].pc = "read"]
    /\ UNCHANGED <<fs, inodes, nreq, hist, parserVars, studyVars, gateVars>>

\* get_progress, json.loads(p.read_text()): a vanished file and a text that
\* is no JSON both end in the except branch
GetRead(t) ==
    /\ req[t].op = "GET" /\ req[t].pc = "read"
    /\ LET ino == fs[req[t].profile].path
       IN  req' = IF ino # NoFile /\ loads(inodes[ino]).ok
                  THEN Respond(t, req, 200, loads(inodes[ino]).value)
                  ELSE Respond(t, req, 500, "Corrupt progress file")
    /\ UNCHANGED <<fs, inodes, nreq, hist, parserVars, studyVars, gateVars>>

\* _atomic_write_json, tmp.write_text: open(tmp, "w") creates the file or
\* truncates the one of that name
PutOpen(t) ==
    /\ req[t].op = "PUT" /\ req[t].pc = "start"
    /\ LET p   == req[t].profile
           old == fs[p].tmp
           ino == IF old # NoFile THEN old ELSE FreshInode(inodes)
       IN  /\ fs' = [fs EXCEPT ![p].tmp = ino]
           /\ req' = [req EXCEPT ![t].pc = "write", ![t].fd = ino, ![t].off = 0]
           /\ inodes' = [n \in (DOMAIN inodes) \cup {ino} |->
                            IF n = ino THEN <<>> ELSE inodes[n]]
    /\ UNCHANGED <<nreq, hist, parserVars, studyVars, gateVars>>

\* _atomic_write_json, tmp.write_text: the text is encoded, which may raise,
\* and written chunk by chunk at the descriptor's own offset; the file is
\* closed after the last chunk or on the exception
PutWrite(t) ==
    /\ req[t].op = "PUT" /\ req[t].pc = "write"
    /\ LET text == dumps(req[t].body)
           off  == req[t].off
       IN  IF ~Encodable(text)
           THEN /\ req' = [req EXCEPT ![t].pc = "cleanup", ![t].fd = NoFile]
                /\ inodes' = Reclaim(inodes, fs, req')
           ELSE /\ req' = IF off + 1 = Len(text)
                          THEN [req EXCEPT ![t].pc = "replace", ![t].fd = NoFile,
                                           ![t].off = off + 1]
                          ELSE [req EXCEPT ![t].off = off + 1]
                /\ inodes' = Reclaim([inodes EXCEPT ![req[t].fd] =
                                         WriteAt(@, off, text[off + 1])], fs, req')
    /\ UNCHANGED <<fs, nreq, hist, parserVars, studyVars, gateVars>>

\* _atomic_write_json, tmp.replace(path): raises FileNotFoundError when tmp
\* is gone; put_progress then returns {"ok": True}
PutReplace(t) ==
    /\ req[t].op = "PUT" /\ req[t].pc = "replace"
    /\ LET p == req[t].profile
       IN  IF fs[p].tmp = NoFile
           THEN /\ req' = [req EXCEPT ![t].pc = "cleanup"]
                /\ UNCHANGED <<fs, inodes, hist>>
           ELSE /\ fs' = [fs EXCEPT ![p] = [path |-> fs[p].tmp, tmp |-> NoFile]]
                /\ req' = Respond(t, req, 200, "ok")
                /\ inodes' = Reclaim(inodes, fs', req')
                /\ hist' = [hist EXCEPT ![p] = [acked |-> req[t].body, last |-> req[t].body]]
    /\ UNCHANGED <<nreq, parserVars, studyVars, gateVars>>

\* _atomic_write_json, the except branch: if tmp.exists(): tmp.unlink(),
\* then HTTPException 500
PutCleanup(t) ==
    /\ req[t].op = "PUT" /\ req[t].pc = "cleanup"
    /\ LET p == req[t].profile
       IN  /\ fs' = [fs EXCEPT ![p].tmp = NoFile]
           /\ req' = Respond(t, req, 500, "Failed to persist progress")
           /\ inodes' = Reclaim(inodes, fs', req')
           /\ hist' = [hist EXCEPT ![p].last = req[t].body]
    /\ UNCHANGED <<nreq, parserVars, studyVars, gateVars>>

\* delete_progress, p.exists()
DeleteExists(t) ==
    /\ req[t].op = "DELETE" /\ req[t].pc = "start"
    /\ LET p == req[t].profile
       IN  IF fs[p].path = NoFile
           THEN /\ req' = Respond(t, req, 200, "deleted")
                /\ hist' = [hist EXCEPT ![p] = [acked |-> NoHist, last |-> NoHist]]
           ELSE /\ req' = [req EXCEPT ![t].pc = "unlink"]
                /\ UNCHANGED hist
    /\ UNCHANGED <<fs, inodes, nreq, parserVars, studyVars, gateVars>>

\* delete_progress, p.unlink(): raises when the file is gone by now
DeleteUnlink(t) ==
    /\ req[t].op = "DELETE" /\ req[t].pc = "unlink"
    /\ LET p == req[t].profile
       IN  IF fs[p].path = NoFile
           THEN /\ req' = Respond(t, req, 500, "Failed to delete progress")
                /\ UNCHANGED <<fs, inodes, hist>>
           ELSE /\ fs' = [fs EXCEPT ![p].path = NoFile]
                /\ req' = Respond(t, req, 200, "deleted")
                /\ inodes' = Reclaim(inodes, fs', req')
                /\ hist' = [hist EXCEPT ![p] = [acked |-> NoHist, last |-> NoHist]]
    /\ UNCHANGED <<nreq, parserVars, studyVars, gateVars>>

\* a request with its path parameter and Authorization header reaches worker t
Arrive(t, op, name, creds, b) ==
    /\ req[t].pc \in {"idle", "done"}
    /\ nreq < MaxReqs
    /\ nreq' = nreq + 1
    /\ req' = [req EXCEPT ![t] = [op |-> op, profile |-> PathKey(name), body |-> b,
                                  pc |-> "arrived", fd |-> NoFile, off |-> 0,
                                  status |-> 0, value |-> "none"]]
    /\ call' = [call EXCEPT ![t] = [name |-> name, creds |-> creds]]
    /\ UNCHANGED <<fs, inodes, hist, API_TOKEN, parserVars, studyVars>>

ArriveGet(t)    == \E n \in RequestNames, c \in RequestCreds : Arrive(t, "GET", n, c, BodyA)
ArrivePut(t)    == \E n \in RequestNames, c \in RequestCreds, b \in {BodyA, BodyS} :
                       Arrive(t, "PUT", n, c, b)
ArriveDelete(t) == \E n \in RequestNames, c \in RequestCreds : Arrive(t, "DELETE", n, c, BodyA)

\* the dependencies of the route are resolved before the handler is called:
\* Depends(require_bearer_token) on put_progress and delete_progress, none
\* on get_progress
Authorize(t) ==
    /\ req[t].pc = "arrived"
    /\ req' = IF req[t].op \in {"PUT", "DELETE"}
                  /\ ~require_bearer_token(API_TOKEN, call[t].creds)
              THEN Respond(t, req, 401, "Invalid or missing token")
              ELSE [req EXCEPT ![t].pc = "path"]
    /\ UNCHANGED <<fs, inodes, nreq, hist, parserVars, studyVars, gateVars>>

\* p = _path_for(profile), the first statement of every handler
PathFor(t) ==
    /\ req[t].pc = "path"
    /\ req' = IF PROFILE_SAFE_RE(call[t].name)
              THEN [req EXCEPT ![t].pc = "start"]
              ELSE Respond(t, req, 400, "Invalid profile name")
    /\ UNCHANGED <<fs, inodes, nreq, hist, parserVars, studyVars, gateVars>>

Step(t) ==
    \/ GetExists(t) \/ GetRead(t)
    \/ PutOpen(t) \/ PutWrite(t) \/ PutReplace(t) \/ PutCleanup(t)
    \/ DeleteExists(t) \/ DeleteUnlink(t)

\* requests sent one at a time: a single worker serves them
NextSerial ==
    StartGet(1, Profiles) \/ StartPut(1, Profiles) \/ StartDelete(1, Profiles) \/ Step(1)

\* requests served concurrently
NextConcurrent ==
    \E t \in Threads :
        StartGet(t, {"p"}) \/ StartPut(t, {"p"}) \/ StartDelete(t, {"p"}) \/ Step(t)

\* requests of any name and credentials, one at a time
NextGate ==
    \/ ArriveGet(1) \/ ArrivePut(1) \/ ArriveDelete(1)
    \/ Authorize(1) \/ PathFor(1) \/ Step(1)

(***************************************************************************)
(* Specifications.                                                         *)
(***************************************************************************)
InitSpecFree       == InitFree /\ StudyIdle /\ ApiIdle
InitSpecCards      == InitCards /\ StudyIdle /\ ApiIdle
InitSpecMarked     == InitMarked /\ StudyIdle /\ ApiIdle
InitSpec           == ParserIdle /\ InitStudy({Absent}) /\ ApiIdle
InitSpecTwins      == ParserIdle /\ InitTwins /\ ApiIdle
InitSpecCorrupt    == ParserIdle /\ InitStudy(CorruptStorages \cup {Absent}) /\ ApiIdle
InitSpecApi        == ParserIdle /\ StudyIdle /\ ApiIdle
InitSpecGate       == ParserIdle /\ StudyIdle /\ ApiConfigured
InitSpecExport     ==
    /\ md_files = <<>> /\ layout = NoLayout /\ out = NoOutput /\ ExportStart
    /\ StudyIdle /\ ApiIdle

\* build_outputs on free-form documents, and on documents composed of blocks
SpecFree  == InitSpecFree /\ [][Build]_vars
SpecCards == InitSpecCards /\ [][Build]_vars
\* build_outputs on free-form documents of the second vocabulary
SpecMarked == InitSpecMarked /\ [][Build]_vars
\* the study view in a browser whose storage holds what the page wrote
Spec == InitSpec /\ [][NextStudy]_vars
\* the study view in a browser whose storage may hold anything
SpecCorrupt == InitSpecCorrupt /\ [][NextStudy]_vars
\* the study view on the pool of look-alike cards
SpecTwins == InitSpecTwins /\ [][NextStudy]_vars
\* the progress API, requests one at a time and requests in parallel
SpecSerial     == InitSpecApi /\ [][NextSerial]_vars
SpecConcurrent == InitSpecApi /\ [][NextConcurrent]_vars
\* the progress API behind its gate, under every configuration of the token
SpecGate == InitSpecGate /\ [][NextGate]_vars
\* an upload to a topic next to a study view that loads
SpecExport == InitSpecExport /\ [][NextExport]_vars

(***************************************************************************)
(* Properties of the parser and the output builder.                        *)
(***************************************************************************)
Built == out # NoOutput

\* the answer of a block of AnswerBodies as a reader sees it: its lines
\* joined by line breaks, less the blank lines and blanks around them
ExpectedAnswer(body) ==
    CASE body = <<(<<"x">>)>>                       -> <<"x">>
      [] body = << <<"x">>, <<>>, <<" ", "y">> >>   -> <<"x", NL, NL, " ", "y">>
      [] body = << <<>>, <<" ", "y", " ">>, <<" ">> >>   -> <<"y">>

\* C1: a document of N well-formed card blocks parses to exactly N records,
\* the i-th carrying the title, question and answer of the i-th block
C1_WellFormedBlocks ==
    Built =>
        /\ Len(out.cards) = Len(layout.blocks)
        /\ \A k \in 1..Len(layout.blocks) :
              /\ out.cards[k].title = layout.blocks[k].title
              /\ out.cards[k].q = layout.blocks[k].question
              /\ out.cards[k].a = ExpectedAnswer(layout.blocks[k].body)

\* two different blocks in one text, the first one ended by the next heading
C1_Witness ==
    /\ Built
    /\ Len(layout.blocks) = 2 /\ layout.split = 2
    /\ ~layout.blocks[1].rule
    /\ layout.blocks[1].title # layout.blocks[2].title
    /\ layout.blocks[1].question # layout.blocks[2].question
    /\ Len(out.cards) = 2

\* the blocks of a free-form document, read off its lines: a block runs from
\* a heading to the line before the next heading or rule
BlockEnd(ls, h) ==
    LET ends == {j \in (h + 1)..Len(ls) : FLASH_HEAD(ls[j]).ok \/ RULE_LINE(ls[j])}
    IN  IF ends = {} THEN Len(ls) + 1 ELSE CHOOSE j \in ends : \A e \in ends : j <= e

NonBlank(line) == \E k \in 1..Len(line) : line[k] \notin {" ", TAB}

\* block h has an answer marker followed by a non-blank line
HasAnswerBody(ls, h) ==
    \E m \in (h + 1)..(BlockEnd(ls, h) - 1) :
        /\ ANSWER_LINE(ls[m])
        /\ \A j \in (h + 1)..(m - 1) : ~ANSWER_LINE(ls[j])
        /\ \E j \in (m + 1)..(BlockEnd(ls, h) - 1) : NonBlank(ls[j])

\* block h has a question-label line ahead of its answer marker
HasQuestionLine(ls, h) ==
    \E j \in (h + 1)..(BlockEnd(ls, h) - 1) :
        /\ QUESTION_LINE(ls[j]).ok
        /\ \A m \in (h + 1)..(j - 1) : ~ANSWER_LINE(ls[m])

Headings(ls) == {h \in 1..Len(ls) : FLASH_HEAD(ls[h]).ok}

\* C2: every record has a non-empty question and a non-empty answer, and
\* only blocks with a question-label line and a non-blank answer body yield
\* a record
C2_BothRequired ==
    Built =>
        /\ \A k \in 1..Len(out.cards) : out.cards[k].q # <<>> /\ out.cards[k].a # <<>>
        /\ Len(out.cards) <= Cardinality({h \in Headings(layout.lines) :
                                  /\ HasQuestionLine(layout.lines, h)
                                  /\ HasAnswerBody(layout.lines, h)})

\* a block with an answer body under a bare marker but no question line
C2_Witness ==
    /\ Built
    /\ \E h \in Headings(layout.lines) :
          HasAnswerBody(layout.lines, h) /\ ~HasQuestionLine(layout.lines, h)
    /\ out.cards = <<>>

\* the lines of a text: the pieces its line breaks end
RECURSIVE EndedLines(_, _)
EndedLines(s, cur) ==
    IF s = <<>> THEN (IF cur = <<>> THEN <<>> ELSE <<cur>>)
    ELSE IF Head(s) = NL THEN <<cur>> \o EndedLines(Tail(s), <<>>)
    ELSE EndedLines(Tail(s), Append(cur, Head(s)))

TsvRows == EndedLines(out.quizlet_tsv, <<>>)

RowsMatchCards ==
    /\ Len(TsvRows) = Len(out.cards_json.cards)
    /\ \A k \in 1..Len(out.cards_json.cards) :
          TsvRows[k] = out.cards_json.cards[k].q \o <<TAB>> \o out.cards_json.cards[k].a

HasLineBreak(s) == \E k \in 1..Len(s) : s[k] = NL

\* C8 as stated: for every input the TSV has one line per card of the JSON
\* output, the k-th being question, tab, answer
C8_Original == Built => RowsMatchCards

\* C8: the same, for the inputs none of whose answers holds a line break
C8_RowsWhenSingleLine ==
    (Built /\ \A k \in 1..Len(out.cards) : ~HasLineBreak(out.cards[k].a))
        => RowsMatchCards

\* two cards with one-line answers
C8_Witness ==
    /\ Built
    /\ Len(out.cards) = 2
    /\ \A k \in 1..Len(out.cards) : ~HasLineBreak(out.cards[k].a)
    /\ out.quizlet_tsv # <<>>

(***************************************************************************)
(* Properties of the study view.                                           *)
(***************************************************************************)
\* the card on display and its progress entry, (1, 0) when it has none
Current   == queue[idx + 1]
HasEntry(c) == idOf(c) \in DOMAIN prog.map
BoxOf(c)  == IF HasEntry(c) THEN prog.map[idOf(c)].box ELSE 1
LastOf(c) == IF HasEntry(c) THEN prog.map[idOf(c)].last ELSE 0

StoredAfter(c) == prog'.map[idOf(c)]

\* C3: grade(g) on the current card stores box 1 for again, b for hard,
\* min(6, b+1) for good, min(6, b+2) for easy, and last_reviewed = now
C3_GradeTransition ==
    [][(queue # <<>>) =>
         /\ GradeAgain => StoredAfter(Current) = [box |-> 1, last |-> now]
         /\ GradeHard  => StoredAfter(Current) = [box |-> BoxOf(Current), last |-> now]
         /\ GradeGood  => StoredAfter(Current) =
                             [box |-> IF BoxOf(Current) + 1 > 6 THEN 6 ELSE BoxOf(Current) + 1,
                              last |-> now]
         /\ GradeEasy  => StoredAfter(Current) =
                             [box |-> IF BoxOf(Current) + 2 > 6 THEN 6 ELSE BoxOf(Current) + 2,
                              last |-> now]]_vars

\* a card graded three times, now in box 5, stored under the current time
C3_Witness ==
    /\ ngrades = 3
    /\ \E id \in DOMAIN prog.map : prog.map[id].box = 5 /\ prog.map[id].last = now
    /\ Cardinality(DOMAIN prog.map) = 1
    /\ now > Epoch0

\* C4: from an empty progress mapping, every entry has a box in 1..6
C4_BoxRange ==
    \A id \in DOMAIN prog.map : prog.map[id].box \in 1..6

\* easy from box 5: a card in box 6 after three grades, persisted
C4_Witness ==
    /\ \E id \in DOMAIN prog.map : prog.map[id].box = 6
    /\ ngrades = 3
    /\ storage = [kind |-> "object", map |-> prog.map]

\* a selection: the initial load, a topic change or a tag change
Selection == Boot \/ ChangeTopic \/ ChangeTag

\* D = [0, 0, 1, 3, 7, 16, 35] at index min(box, 6), in days
Days(box) ==
    CASE box <= 1 -> 0
      [] box = 2  -> 1
      [] box = 3  -> 3
      [] box = 4  -> 7
      [] box = 5  -> 16
      [] box >= 6 -> 35

\* last_reviewed + D[min(box, 6)] * 86_400_000 <= now
DueByRule(c) == LastOf(c) + Days(BoxOf(c)) * DayMs <= now

\* the pool the selection filters for, and its due part
PoolAfter == Filtered(cards, topicSel', tagSel')
DueAfter  == SelectSeq(PoolAfter, DueByRule)

Member(c, seq) == \E k \in 1..Len(seq) : seq[k] = c

\* every card of pool that is new or in one of boxes, with last_reviewed
\* not in the future, is in q
AlwaysDueIn(pool, boxes, q) ==
    \A k \in 1..Len(pool) :
        (~HasEntry(pool[k]) \/ (BoxOf(pool[k]) \in boxes /\ LastOf(pool[k]) <= now))
            => Member(pool[k], q)

\* C5 as stated: the due cards of a selection are those the rule names, so
\* a never reviewed card is due and so is a card in box 1 or box 2 whose
\* last_reviewed is not in the future
C5_Original ==
    [][Selection =>
         LET pool == PoolAfter
             due  == DueAfter
         IN  /\ due # <<>> => queue' = due
             /\ queue' # pool => AlwaysDueIn(pool, {1, 2}, queue')]_vars

\* C5: the same with box 1 alone in the consequence
C5_DueRule ==
    [][Selection =>
         LET pool == PoolAfter
             due  == DueAfter
         IN  /\ due # <<>> => queue' = due
             /\ queue' # pool => AlwaysDueIn(pool, {1}, queue')]_vars

\* a selection that kept a never reviewed card and left out a card of box 2
\* reviewed less than a day ago: the second was graded good at the start,
\* the third graded later, and the tag filter chosen after that
C5_Witness ==
    /\ view = "ok" /\ cards = Pool3
    /\ topicSel = Empty /\ tagSel = G1
    /\ queue = <<Pool3[1]>>
    /\ ~HasEntry(Pool3[1])
    /\ HasEntry(Pool3[3]) /\ BoxOf(Pool3[3]) = 2 /\ LastOf(Pool3[3]) + DayMs > now
    /\ ngrades = 1

\* C6: after a selection the queue is the due part of the filtered pool, or
\* the whole filtered pool when nothing is due; it is empty only when the
\* filtered pool is
C6_Fallback ==
    [][Selection =>
         LET pool == PoolAfter
             due  == DueAfter
         IN  /\ queue' = IF due # <<>> THEN due ELSE pool
             /\ queue' = <<>> => pool = <<>>]_vars

\* the tag filter was set when its only card was not due: that card was
\* graded before the card of the other topic, which the filter hides
C6_Witness ==
    /\ view = "ok" /\ cards = Pool3
    /\ topicSel = T1 /\ tagSel = G2
    /\ queue = <<Pool3[2]>>
    /\ HasEntry(Pool3[2]) /\ HasEntry(Pool3[3])
    /\ LastOf(Pool3[3]) > LastOf(Pool3[2])
    /\ LastOf(Pool3[2]) + Days(BoxOf(Pool3[2])) * DayMs > now

\* C9 as stated: whatever the stored text, loading leaves the view working
\* and, until a grade is stored, every card of the filtered pool is queued
C9_Original ==
    (view # "unloaded" /\ ngrades = 0) =>
        /\ view = "ok"
        /\ queue = Filtered(cards, topicSel, tagSel)

(***************************************************************************)
(* Properties of the progress API.                                         *)
(***************************************************************************)
FileOf(p) == inodes[fs[p].path]

\* C7 as stated: under any interleaving of GETs and PUTs on one profile a
\* GET reads no partially written file: the file it is about to read holds
\* the complete body of some PUT
C7_Original ==
    \A t \in Threads :
        (req[t].op = "GET" /\ req[t].pc = "read" /\ fs[req[t].profile].path # NoFile)
            => loads(FileOf(req[t].profile)).ok

\* C10 as stated: with requests one at a time, a GET answers the body of
\* the most recent PUT on its profile that no DELETE followed, {} otherwise;
\* a DELETE answers success and leaves no file, whether or not one existed
C10_Original ==
    /\ (req[1].op = "GET" /\ req[1].pc = "done") =>
          /\ req[1].status = 200
          /\ req[1].value = IF hist[req[1].profile].last = NoHist THEN EmptyBody
                            ELSE hist[req[1].profile].last
    /\ (req[1].op = "DELETE" /\ req[1].pc = "done") =>
          /\ req[1].status = 200
          /\ fs[req[1].profile].path = NoFile

(***************************************************************************)
(* Properties of the gate in front of the handlers.                        *)
(***************************************************************************)
\* the request of worker 1 is answered in this step
Answered == req[1].pc # "done" /\ req'[1].pc = "done"

\* the Authorization header is "Bearer", one or more spaces, the token
CarriesToken(creds, token) ==
    /\ creds.present
    /\ \E k \in 0..Len(creds.credentials) :
          /\ \A j \in 1..k : creds.credentials[j] = " "
          /\ Rest(creds.credentials, k + 1) = token

Sanitized(profile) ==
    /\ Len(profile) \in 1..NameMax
    /\ \A k \in 1..Len(profile) : profile[k] \in ProfileChars

\* C12 as stated: a request whose profile name is not of that form touches
\* no file and is answered with a client error
C12_Original ==
    [][(req[1].pc \notin {"idle", "done"} /\ ~Sanitized(call[1].name)) =>
         /\ UNCHANGED <<fs, inodes>>
         /\ req'[1].pc \notin {"read", "write", "unlink"}
         /\ req'[1].pc = "done" => req'[1].status \in 400..499]_vars

(***************************************************************************)
(* Further properties of the parser and the output builder.                *)
(***************************************************************************)
\* the names of the two documents with the extension stripped
TagA == <<"a">>                 \* a.md
TagB == <<"b", ".", "c">>       \* d/b.c.md

\* C13: the cards are those of the first document, in its order, then those
\* of the second, in its order, and each carries its document's name
\* without the extension as tag
C13_TagAndOrder ==
    Built =>
        /\ Len(out.cards) = Len(layout.blocks)
        /\ \A k \in 1..Len(out.cards) :
              /\ out.cards[k].tag = IF k <= layout.split THEN TagA ELSE TagB
              /\ out.cards[k].title = layout.blocks[k].title
              /\ out.cards[k].q = layout.blocks[k].question
        /\ out.cards_json.cards = out.cards

\* one card from each document, the two cards different
C13_Witness ==
    /\ Built
    /\ Len(layout.blocks) = 2 /\ layout.split = 1
    /\ layout.blocks[1].title # layout.blocks[2].title
    /\ out.cards[1].tag = TagA /\ out.cards[2].tag = TagB

\* the lines of a body without the blank lines at its start and at its end
RECURSIVE DropBlankHead(_)
DropBlankHead(ls) ==
    IF ls # <<>> /\ ~NonBlank(Head(ls)) THEN DropBlankHead(Tail(ls)) ELSE ls

RECURSIVE DropBlankTail(_)
DropBlankTail(ls) ==
    IF ls # <<>> /\ ~NonBlank(ls[Len(ls)])
    THEN DropBlankTail(SubSeq(ls, 1, Len(ls) - 1)) ELSE ls

\* the same lines, the first without the blanks before its text and the last
\* without the blanks after it
OuterTrimmed(ls) ==
    [k \in 1..Len(ls) |->
        LET l1 == IF k = 1 THEN LStrip(ls[k]) ELSE ls[k]
        IN  IF k = Len(ls) THEN RStrip(l1) ELSE l1]

\* C14: the answer of a card is the lines after its answer marker up to the
\* next heading, rule or end of input, joined by line breaks: the inner lines
\* and inner blank lines as they are, no blank line and no blank at either
\* end
C14_AnswerVerbatim ==
    Built =>
        \A k \in 1..Len(out.cards) :
            LET ls == OuterTrimmed(DropBlankTail(DropBlankHead(layout.blocks[k].body)))
            IN  /\ Len(out.cards) = Len(layout.blocks)
                /\ out.cards[k].a = JoinLines(ls)
                /\ ~IsWhite(out.cards[k].a[1])
                /\ ~IsWhite(out.cards[k].a[Len(out.cards[k].a)])

\* a card whose answer keeps an inner blank line and an indented line, next
\* to one whose body began and ended with blank lines
C14_Witness ==
    /\ Built
    /\ Len(layout.blocks) = 2 /\ Len(out.cards) = 2
    /\ layout.blocks[1].body = << <<"x">>, <<>>, <<" ", "y">> >>
    /\ out.cards[1].a = <<"x", NL, NL, " ", "y">>
    /\ layout.blocks[2].body = << <<>>, <<" ", "y", " ">>, <<" ">> >>
    /\ out.cards[2].a = <<"y">>

(***************************************************************************)
(* Properties of the export directory.                                     *)
(***************************************************************************)
\* C15 as stated: the study view that is about to read <topic>.json finds a
\* complete card set in it, whatever the upload handler is doing
C15_Original ==
    (ldr.pc = "read") =>
        \A f \in ldr.todo :
            /\ build_dir[f].exists
            /\ \E v \in CardSets : build_dir[f].data = ExportChunks(v)

\* the study view has loaded a directory that the manage tab left at rest:
\* no upload or deletion was under way when the files were listed, and none
\* has started since
LoadedAtRest == ldr.pc = "done" /\ upl.pc = "idle" /\ ldr.at = nupl

\* the card set saved under topic t is in the pool of the load, with its stamp
InPool(t) == Stamped(t, upl.saved[t]) \in ldr.pool

\* the file of topic t holds the card set saved under it
InFile(t) == build_dir[JsonPath(t)] = Written(ExportChunks(upl.saved[t]))

\* C23 as stated: whatever the topic name, the card set that an upload saved
\* under it, and that was neither deleted nor written again, is in the pool
\* of the next load of the study view, stamped with that name; and once the
\* upload has written the topics index the card set is still in its file
C23_Original ==
    /\ LoadedAtRest => \A t \in TopicNames : upl.saved[t] # "none" => InPool(t)
    /\ upl.pc = "idle" => \A t \in TopicNames : upl.saved[t] # "none" => InFile(t)

\* the same for the names that are neither one of the two files the views
\* pass over nor empty
OrdinaryTopics == TopicNames \ {"cards", "topics", ""}

C23_OrdinaryTopics ==
    /\ LoadedAtRest => \A t \in OrdinaryTopics : upl.saved[t] # "none" => InPool(t)
    /\ upl.pc = "idle" => \A t \in OrdinaryTopics : upl.saved[t] # "none" => InFile(t)

\* card sets were saved under two ordinary names and the load holds both
C23_OrdinaryWitness ==
    /\ LoadedAtRest /\ ldr.result = "ok"
    /\ upl.saved["default"] = "A" /\ upl.saved["maths"] = "B"
    /\ ldr.pool = {Stamped("default", "A"), Stamped("maths", "B")}

(***************************************************************************)
(* Properties of the parser on documents of the second vocabulary.         *)
(***************************************************************************)
\* a line of hyphens and nothing else but blanks around them
Hyphens(line) == {k \in 1..Len(line) : line[k] = "-"}
OnlyHyphens(line) == \A k \in 1..Len(Strip(line)) : Strip(line)[k] = "-"
ThreeHyphens(line)       == OnlyHyphens(line) /\ Cardinality(Hyphens(line)) = 3
ThreeOrMoreHyphens(line) == OnlyHyphens(line) /\ Cardinality(Hyphens(line)) >= 3

AnswerRows(k) == EndedLines(out.cards[k].a, <<>>)

\* the headings whose block holds a question line and an answer body
FullBlocks ==
    {h \in Headings(layout.lines) :
        HasQuestionLine(layout.lines, h) /\ HasAnswerBody(layout.lines, h)}

\* C16 as stated: a line of three or more hyphens ends the body, so no
\* answer holds such a line
C16_Original ==
    Built =>
        \A k \in 1..Len(out.cards) :
            \A j \in 1..Len(AnswerRows(k)) : ~ThreeOrMoreHyphens(AnswerRows(k)[j])

\* C16: a line of exactly three hyphens ends the body: no answer holds such
\* a line, and a block that has its question line or its answer body only
\* after one yields no card
C16_RuleEndsBody ==
    Built =>
        /\ \A k \in 1..Len(out.cards) :
              \A j \in 1..Len(AnswerRows(k)) : ~ThreeHyphens(AnswerRows(k)[j])
        /\ Len(out.cards) <= Cardinality(FullBlocks)

\* a card whose answer took in a line of four hyphens and stopped at the
\* line of three that follows it
C16_Witness ==
    /\ Built
    /\ layout.lines = <<LineHead, LineQ, LineA, LineRule4, LineRule>>
    /\ Len(out.cards) = 1
    /\ out.cards[1].a = LineRule4

\* the k-th smallest member of a set of numbers
Nth(S, k) == CHOOSE x \in S : Cardinality({y \in S : y <= x}) = k

\* the answer marker of block h: the first one after the heading
MarkerOf(ls, h) ==
    CHOOSE m \in (h + 1)..(BlockEnd(ls, h) - 1) :
        ANSWER_LINE(ls[m]) /\ \A j \in (h + 1)..(m - 1) : ~ANSWER_LINE(ls[j])

\* the question lines of block h ahead of its answer marker
LabelsOf(ls, h) == {j \in (h + 1)..(MarkerOf(ls, h) - 1) : ls[j] \in {LineQ, LineQ2}}

\* the text a question line of the vocabulary gives
LabelText(line) == IF line = LineQ THEN <<"x">> ELSE <<"z">>

\* C17: the cards are the blocks that have a question line and an answer
\* body, in order; the question of each is the text of the last question
\* line ahead of the answer marker, and its answer is every line after the
\* marker up to the end of the block, question lines included, as they are
C17_LastQuestionWins ==
    Built =>
        /\ Len(out.cards) = Cardinality(FullBlocks)
        /\ \A k \in 1..Len(out.cards) :
              LET ls == layout.lines
                  h  == Nth(FullBlocks, k)
                  m  == MarkerOf(ls, h)
              IN  /\ out.cards[k].q = LabelText(ls[Nth(LabelsOf(ls, h), Cardinality(LabelsOf(ls, h)))])
                  /\ out.cards[k].a = JoinLines(SubSeq(ls, m + 1, BlockEnd(ls, h) - 1))

\* two question lines ahead of the marker and one after it
C17_Witness ==
    /\ Built
    /\ layout.lines = <<LineHead, LineQ, LineQ2, LineA, LineQ>>
    /\ Len(out.cards) = 1
    /\ out.cards[1].q = <<"z">>
    /\ out.cards[1].a = LineQ

(***************************************************************************)
(* Further properties of the study view.                                   *)
(***************************************************************************)
\* a grade is stored in this step
GradeStep == GradeAgain \/ GradeHard \/ GradeGood \/ GradeEasy

HasEntryAfter(c) == idOf(c) \in DOMAIN prog'.map
BoxAfter(c) == IF HasEntryAfter(c) THEN prog'.map[idOf(c)].box ELSE 1

\* C18 as stated: two cards have the same key exactly when they agree on
\* topic, tag, title and question, so a grade leaves the entry of every card
\* that differs from the graded one in some field as it was
C18_Original ==
    [][/\ \A i, j \in 1..Len(cards) : (idOf(cards[i]) = idOf(cards[j])) <=> (cards[i] = cards[j])
       /\ (GradeStep /\ queue # <<>>) =>
             \A k \in 1..Len(cards) :
                 cards[k] # Current =>
                     /\ HasEntryAfter(cards[k]) = HasEntry(cards[k])
                     /\ BoxAfter(cards[k]) = BoxOf(cards[k])]_vars


\* C19: the queue changes at a selection and at no other event: a grade, a
\* move to the next or the previous card and a reveal leave it as it is
C19_QueueFrame ==
    [][/\ (queue' # queue) => Selection
       /\ (GradeStep \/ NextCard \/ PrevCard \/ Reveal) => queue' = queue]_vars

\* after a grade the queue still holds a card that is no longer due
C19_Witness ==
    /\ view = "ok" /\ ngrades = 1
    /\ Len(queue) = 3
    /\ \E k \in 1..Len(queue) : HasEntry(queue[k]) /\ ~DueByRule(queue[k])

\* the position after one step forward and one step back, with the wrap
Forward(i, n)  == IF i = n - 1 THEN 0 ELSE i + 1
Backward(i, n) == IF i = 0 THEN n - 1 ELSE i - 1

\* C20: with a non-empty queue the index is one of its positions; next goes
\* one position forward and from the last to the first, prev one back and
\* from the first to the last, and a grade moves as next does
C20_IndexWraps ==
    [][/\ queue # <<>> => idx \in 0..(Len(queue) - 1)
       /\ queue' # <<>> => idx' \in 0..(Len(queue') - 1)
       /\ (NextCard /\ queue # <<>>)  => idx' = Forward(idx, Len(queue))
       /\ (PrevCard /\ queue # <<>>)  => idx' = Backward(idx, Len(queue))
       /\ (GradeStep /\ queue # <<>>) => idx' = Forward(idx, Len(queue))]_vars

\* both cards of a queue of two were graded, the second from the last
\* position, and the index is back at the first
C20_Witness ==
    /\ view = "ok" /\ ngrades = 2
    /\ Len(queue) = 2 /\ idx = 0
    /\ HasEntry(queue[1]) /\ HasEntry(queue[2])
    /\ LastOf(queue[2]) > LastOf(queue[1])

(***************************************************************************)
(* Further properties of the study view.                                   *)
(***************************************************************************)
\* C21: a reveal flips the shown flag and leaves the progress mapping, the
\* stored progress, the queue and the index as they were; a move to the next
\* or the previous card and a grade on a non-empty queue, and every
\* selection, leave the answer hidden
C21_RevealFrame ==
    [][/\ Reveal => /\ shown' = ~shown
                    /\ prog' = prog /\ storage' = storage
                    /\ queue' = queue /\ idx' = idx
       /\ ((NextCard \/ PrevCard \/ GradeStep) /\ queue # <<>>) => shown' = FALSE
       /\ Selection => shown' = FALSE]_vars

\* the answer of the second card is shown after the first card was graded
C21_Witness ==
    /\ view = "ok" /\ shown
    /\ Len(queue) = 3 /\ idx = 1
    /\ ngrades = 1 /\ HasEntry(queue[1])

\* the identities that have an entry in the page's mapping and in the store
Keys       == DOMAIN prog.map
KeysAfter  == DOMAIN prog'.map
StoredKeys == DOMAIN storage.map

\* C22: a grade on a non-empty queue leaves the current card with an entry
\* stamped with the time of the grade, adds no other identity, leaves the
\* entry of every other identity as it was and saves the mapping; at every
\* event of the study view the identities of the mapping, in the page and
\* in the store, are kept
C22_KeysOnlyGrow ==
    [][/\ (GradeStep /\ queue # <<>>) =>
             /\ KeysAfter = Keys \cup {idOf(Current)}
             /\ StoredAfter(Current).last = now
             /\ \A id \in Keys \ {idOf(Current)} : prog'.map[id] = prog.map[id]
             /\ storage' = stringify(prog')
       /\ Keys \subseteq KeysAfter
       /\ StoredKeys \subseteq DOMAIN storage'.map]_vars

\* three grades left two entries: one card was graded a second time while
\* the other card kept its entry, and the store holds the same mapping
C22_Witness ==
    /\ view = "ok" /\ ngrades = 3
    /\ Cardinality(Keys) = 2
    /\ storage = stringify(prog)
    /\ \E id \in Keys : prog.map[id].box = 3

====
